---- MODULE Spec2Model ----
(***************************************************************************)
(* A model of transducist: the transformer protocol and Reduced signalling *)
(* (util.ts), the stage library (transducers.ts), the terminal reducers    *)
(* (reducers.ts), the reduction engine (core.ts), the chain builder        *)
(* (chain.ts) and the lazy iterator adapter (iterables.ts).                *)
(*                                                                         *)
(* JavaScript values are tagged records: [t |-> "num", n |-> 3],           *)
(* [t |-> "arr", a |-> <<...>>], [t |-> "obj", ...], [t |-> "undefined"],  *)
(* [t |-> "null"], [t |-> "bool", b |-> TRUE], [t |-> "reduced", value].   *)
(* A property that a record does not carry reads as undefined, and a       *)
(* property read or method call on undefined is a TypeError, as in JS.     *)
(***************************************************************************)
EXTENDS Integers, Sequences, FiniteSets, TLC

\* ----- bounds of the model -----

\* The longest source collection.
MaxLen == 3

\* The most stages composed on one chain.
MaxStages == 2

\* The most reductions made with one built transducer.
MaxUses == 2

\* next() calls the model makes on the source's iterator: enough to run
\* past the end of the longest source and ask again.
MaxPolls == MaxLen + 2

\* The elements a source collection holds.
Values == {1, 2}

\* ----- JavaScript values -----

Max(a, b) == IF a >= b THEN a ELSE b

Num(n) == [t |-> "num", n |-> n]
Arr(s) == [t |-> "arr", a |-> s]
Bool(b) == [t |-> "bool", b |-> b]
Null == [t |-> "null"]
Undefined == [t |-> "undefined"]
NaN == [t |-> "NaN"]

\* A property read o.f: undefined when o does not carry f.
Get(o, f) == IF f \in DOMAIN o THEN o[f] ELSE Undefined

\* A property write o.f = v.
Put(o, f, v) == [y \in DOMAIN o \cup {f} |-> IF y = f THEN v ELSE o[y]]

\* Reading or writing a property of undefined or null throws a TypeError.
IsNullish(o) == o.t \in {"undefined", "null"}

\* The truthiness of the values a stage tests.
Truthy(v) == v.t = "bool" /\ v.b

\* JavaScript's ===. Arrays and object literals are compared by reference:
\* every array the pipeline handles is freshly allocated, so two of them are
\* never the same one; the module-level constant of PartitionBy is.
StrictEq(x, y) ==
    /\ x.t = y.t
    /\ CASE x.t = "num" -> x.n = y.n
         [] x.t = "bool" -> x.b = y.b
         [] x.t \in {"undefined", "null"} -> TRUE
         [] x.t = "const" -> x.id = y.id
         [] OTHER -> FALSE

\* ----- util.ts: Reduced signalling -----

reduced(result) == [t |-> "reduced", value |-> result]

isReduced(result) == result.t = "reduced"

\* A faulty ensureReduced, for comparison: it wraps whatever it is given.
ensureReducedAlways(result) == reduced(result)

ensureReduced(result) == IF isReduced(result) THEN result ELSE reduced(result)

unreduced(result) == IF isReduced(result) THEN result.value ELSE result

\* ----- the functions a caller hands to the stages -----

\* x => x + 1, x => [x, x], group => group, x => x, and the getKey of the
\* group-by reducers (the item, or the length of a group): what the call
\* returns.
Call(f, x) ==
    CASE f \in {"inc", "incOrThrow"} -> IF x.t = "num" THEN Num(x.n + 1) ELSE NaN
      [] f = "dup" -> Arr(<<x, x>>)
      [] f \in {"ident", "identOrThrow"} -> x
      [] f = "key" -> IF x.t = "arr" THEN Num(Len(x.a)) ELSE x
      [] OTHER -> Undefined

\* n => n % 2 === 0, n => n < 2: whether the predicate holds.
Holds(f, x) ==
    CASE f = "isEven" -> x.t = "num" /\ x.n % 2 = 0
      [] f \in {"lt2", "lt2OrThrow"} -> x.t = "num" /\ x.n < 2
      [] OTHER -> FALSE

\* The functions that throw: x => { if (x === 2) throw boom; return ...; }
\* around x + 1, x < 2 and x. Whether the call f(x) throws.
Throws(f, x) ==
    /\ f \in {"incOrThrow", "lt2OrThrow", "identOrThrow"}
    /\ x.t = "num"
    /\ x.n = 2

\* The plain reducer functions handed to reduce(): aPush of the tests,
\* (array, x) => { array.push(x); return array; }, and a quitting one,
\* (array, x) => x === 2 ? reduced(array) : aPush(array, x).
Reduces(f, acc, x) ==
    CASE f = "aPush" -> Arr(Append(acc.a, x))
      [] f = "aPushUntil2" ->
            IF StrictEq(x, Num(2)) THEN reduced(acc) ELSE Arr(Append(acc.a, x))
      [] OTHER -> Undefined

\* ----- the state of one reduction -----

\* The fields a stage instance keeps on itself (Drop.i, Take.i,
\* Interpose.isStarted, PartitionAll.buffer), all at their initial values.
NewInstance == [i |-> 0, isStarted |-> FALSE, buffer |-> Arr(<<>>)]

\* The instances built by applying a transducer to a transformer, with the
\* record of the run kept beside them: seen[k] lists the inputs transformer k
\* was stepped with, redAt[k] is how many it had seen when it first returned
\* Reduced (0: never), sub[k] counts the elements a flatMap at k pulled from
\* its sub-sequences, reds[k] holds the numbers of the step calls of
\* transformer k that returned Reduced, and upTo[k] lists, for each step call
\* of transformer k, how many inputs transformer k + 1 had seen when the call
\* returned; boxed[k] tells whether a step or result call of transformer k
\* was handed a Reduced box as its accumulator, nested[k] whether a step
\* call of transformer k returned a Reduced box holding a Reduced box.
NewMachine(T) ==
    [xf |-> [k \in 1..Len(T) |-> NewInstance],
     seen |-> [k \in 1..Len(T) |-> <<>>],
     redAt |-> [k \in 1..Len(T) |-> 0],
     sub |-> [k \in 1..Len(T) |-> 0],
     reds |-> [k \in 1..Len(T) |-> {}],
     upTo |-> [k \in 1..Len(T) |-> <<>>],
     boxed |-> [k \in 1..Len(T) |-> FALSE],
     nested |-> [k \in 1..Len(T) |-> FALSE]]

\* What a call returns: the machine after it, the value, whether it threw.
Ret(m, r) == [m |-> m, r |-> r, err |-> FALSE]
Throw(m) == [m |-> m, r |-> Undefined, err |-> TRUE]

\* new Error(message), thrown.
Error(message) == [t |-> "error", message |-> message]

IsError(x) == "message" \in DOMAIN x

\* The Error the throwing functions throw.
Boom == Error("boom")

\* A call that ends by throwing e.
Raise(m, e) == [m |-> m, r |-> e, err |-> TRUE]

RECURSIVE Step(_, _, _, _, _)
RECURSIVE InitOf(_, _)
RECURSIVE reduceWithFunction(_, _, _, _, _, _)

\* ----- transducers.ts: the stage library -----
\* In each step, d is what the call of this.xf[STEP] returned.

\* A faulty updateValue, for comparison: a Reduced newValue is unwrapped and
\* the signal dropped.
updateValueUnwrapped(result, newValue) ==
    Put(result, "value", unreduced(newValue))

updateValue(result, newValue) ==
    IF isReduced(newValue)
    THEN reduced(Put(result, "value", newValue.value))
    ELSE Put(result, "value", newValue)

\* return updateValue(result, this.xf[STEP](result.value, input))
Updated(result, d) == IF d.err THEN d ELSE Ret(d.m, updateValue(result, d.r))

INITIAL_LAST_KEY == [t |-> "const", id |-> "INITIAL_LAST_KEY"]

\* A faulty Dedupe, for comparison: last is never updated.
DedupeStepStale(T, k, m, result, input) ==
    IF IsNullish(result) THEN Throw(m)
    ELSE IF ~StrictEq(input, Get(result, "last"))
    THEN Updated(result, Step(T, k + 1, m, Get(result, "value"), input))
    ELSE Ret(m, result)

DedupeStep(T, k, m, result, input) ==
    IF IsNullish(result) THEN Throw(m)
    ELSE IF ~StrictEq(input, Get(result, "last"))
    THEN Updated(Put(result, "last", input),
                 Step(T, k + 1, m, Get(result, "value"), input))
    ELSE Ret(m, result)

\* A faulty Drop, for comparison: this.i++ <= this.n.
DropStepOneMore(T, k, m, result, input) ==
    IF m.xf[k].i <= T[k].n
    THEN Ret([m EXCEPT !.xf[k].i = @ + 1], result)
    ELSE Step(T, k + 1, [m EXCEPT !.xf[k].i = @ + 1], result, input)

DropStep(T, k, m, result, input) ==
    IF m.xf[k].i < T[k].n
    THEN Ret([m EXCEPT !.xf[k].i = @ + 1], result)
    ELSE Step(T, k + 1, [m EXCEPT !.xf[k].i = @ + 1], result, input)

\* A faulty DropWhile, for comparison: isDoneDropping is never set.
DropWhileStepForgetful(T, k, m, result, input) ==
    IF IsNullish(result) THEN Throw(m)
    ELSE IF Truthy(Get(result, "isDoneDropping"))
    THEN Updated(result, Step(T, k + 1, m, Get(result, "value"), input))
    ELSE IF Holds(T[k].f, input)
    THEN Ret(m, result)
    ELSE Updated(result, Step(T, k + 1, m, Get(result, "value"), input))

DropWhileStep(T, k, m, result, input) ==
    IF IsNullish(result) THEN Throw(m)
    ELSE IF Truthy(Get(result, "isDoneDropping"))
    THEN Updated(result, Step(T, k + 1, m, Get(result, "value"), input))
    ELSE IF Holds(T[k].f, input)
    THEN Ret(m, result)
    ELSE Updated(Put(result, "isDoneDropping", Bool(TRUE)),
                 Step(T, k + 1, m, Get(result, "value"), input))

FilterStep(T, k, m, result, input) ==
    IF Throws(T[k].f, input) THEN Raise(m, Boom)
    ELSE IF Holds(T[k].f, input)
    THEN Step(T, k + 1, m, result, input)
    ELSE Ret(m, result)

\* remove(pred) is filter(item => !pred(item)).
RemoveStep(T, k, m, result, input) ==
    IF ~Holds(T[k].f, input)
    THEN Step(T, k + 1, m, result, input)
    ELSE Ret(m, result)

\* The elements taken from the sub-sequence are added to the stage's count.
SubPulled(k, d) == [d EXCEPT !.m.sub[k] = @ + d.pulled]

\* reduceWithFunction(this.f(input), this.step, result); getIterator throws
\* when this.f(input) is not iterable.
FlatMapOver(T, k, m, result, coll) ==
    IF coll.t # "arr" THEN Throw(m)
    ELSE SubPulled(k, reduceWithFunction(T, k + 1, m, coll.a, 1, result))

FlatMapStep(T, k, m, result, input) ==
    FlatMapOver(T, k, m, result, Call(T[k].f, input))

\* A faulty Interpose, for comparison: the input follows the separator even
\* when the separator's step returned Reduced.
AfterSeparatorAnyway(T, k, input, withSeparator) ==
    IF withSeparator.err THEN withSeparator
    ELSE Step(T, k + 1, withSeparator.m, unreduced(withSeparator.r), input)

\* if (isReduced(withSeparator)) return withSeparator;
\* else return this.xf[STEP](withSeparator, input)
AfterSeparator(T, k, input, withSeparator) ==
    IF withSeparator.err \/ isReduced(withSeparator.r)
    THEN withSeparator
    ELSE Step(T, k + 1, withSeparator.m, withSeparator.r, input)

\* A faulty Interpose, for comparison: the separator goes before every input.
InterposeStepLeading(T, k, m, result, input) ==
    AfterSeparator(T, k, input, Step(T, k + 1, m, result, Num(T[k].n)))

InterposeStep(T, k, m, result, input) ==
    IF m.xf[k].isStarted
    THEN AfterSeparator(T, k, input, Step(T, k + 1, m, result, Num(T[k].n)))
    ELSE Step(T, k + 1, [m EXCEPT !.xf[k].isStarted = TRUE], result, input)

\* A faulty map, for comparison: what f throws is caught, the input skipped.
MapStepCatching(T, k, m, result, input) ==
    IF Throws(T[k].f, input) THEN Ret(m, result)
    ELSE Step(T, k + 1, m, result, Call(T[k].f, input))

MapStep(T, k, m, result, input) ==
    IF Throws(T[k].f, input) THEN Raise(m, Boom)
    ELSE Step(T, k + 1, m, result, Call(T[k].f, input))

\* const newResult = this.xf[STEP](result, this.buffer); this.buffer = [];
BufferReset(k, d) == IF d.err THEN d ELSE [d EXCEPT !.m.xf[k].buffer = Arr(<<>>)]

\* this.buffer.push(input) has made the buffer `buffer`.
PartitionAllPushed(T, k, m, result, buffer) ==
    IF Len(buffer.a) = T[k].n
    THEN BufferReset(k, Step(T, k + 1, [m EXCEPT !.xf[k].buffer = buffer],
                             result, buffer))
    ELSE Ret([m EXCEPT !.xf[k].buffer = buffer], result)

PartitionAllStep(T, k, m, result, input) ==
    PartitionAllPushed(T, k, m, result, Arr(Append(m.xf[k].buffer.a, input)))

\* unreduced(newResult).buffer.push(input); return newResult
PushToBuffer(m, newResult, input) ==
    IF Get(unreduced(newResult), "buffer").t # "arr" THEN Throw(m)
    ELSE Ret(m, IF isReduced(newResult)
                THEN reduced(Put(newResult.value, "buffer",
                                 Arr(Append(newResult.value.buffer.a, input))))
                ELSE Put(newResult, "buffer",
                         Arr(Append(newResult.buffer.a, input))))

\* unreduced(newResult).buffer = []
BufferCleared(newResult) ==
    IF isReduced(newResult)
    THEN reduced(Put(newResult.value, "buffer", Arr(<<>>)))
    ELSE Put(newResult, "buffer", Arr(<<>>))

\* newResult = updateValue(result, this.xf[STEP](value, buffer)), and on
PartitionByFlushed(result, input, d) ==
    IF d.err THEN d
    ELSE PushToBuffer(d.m, BufferCleared(updateValue(result, d.r)), input)

\* The step once key = this.f(input) is computed.
PartitionByKeyed(T, k, m, result, input, key) ==
    IF IsNullish(result) THEN Throw(m)
    ELSE IF \/ StrictEq(Get(result, "lastKey"), INITIAL_LAST_KEY)
            \/ StrictEq(Get(result, "lastKey"), key)
    THEN PushToBuffer(m, Put(result, "lastKey", key), input)
    ELSE PartitionByFlushed(Put(result, "lastKey", key), input,
             Step(T, k + 1, m, Get(result, "value"), Get(result, "buffer")))

PartitionByStep(T, k, m, result, input) ==
    IF Throws(T[k].f, input) THEN Raise(m, Boom)
    ELSE PartitionByKeyed(T, k, m, result, input, Call(T[k].f, input))

\* A faulty Take, for comparison: this.i++ < this.n, Reduced one step late.
TakeCountedLate(T, k, next) ==
    IF next.err THEN next
    ELSE [next EXCEPT
            !.m.xf[k].i = @ + 1,
            !.r = IF next.m.xf[k].i < T[k].n THEN @ ELSE ensureReduced(@)]

\* return this.i++ < this.n - 1 ? next : ensureReduced(next)
TakeCounted(T, k, next) ==
    IF next.err THEN next
    ELSE [next EXCEPT
            !.m.xf[k].i = @ + 1,
            !.r = IF next.m.xf[k].i < T[k].n - 1 THEN @ ELSE ensureReduced(@)]

\* A faulty Take, for comparison: n <= 0 is not tested.
TakeStepUntested(T, k, m, result, input) ==
    TakeCounted(T, k, Step(T, k + 1, m, result, input))

TakeStep(T, k, m, result, input) ==
    IF T[k].n <= 0 THEN Ret(m, reduced(result))
    ELSE TakeCounted(T, k, Step(T, k + 1, m, result, input))

\* A faulty TakeWhile, for comparison: it skips the failing element and goes on.
TakeWhileSkip(T, k, m, result, input) ==
    IF Holds(T[k].f, input)
    THEN Step(T, k + 1, m, result, input)
    ELSE Ret(m, result)

TakeWhileStep(T, k, m, result, input) ==
    IF Throws(T[k].f, input) THEN Raise(m, Boom)
    ELSE IF Holds(T[k].f, input)
    THEN Step(T, k + 1, m, result, input)
    ELSE Ret(m, reduced(result))

\* result.i++ % this.n === 0: result.i++ leaves NaN when result.i is not a
\* number, and NaN % n is never 0; neither is i % 0.
TakeNthStep(T, k, m, result, input) ==
    IF IsNullish(result) THEN Throw(m)
    ELSE IF Get(result, "i").t # "num"
    THEN Ret(m, Put(result, "i", NaN))
    ELSE IF T[k].n # 0 /\ result.i.n % Max(T[k].n, -T[k].n) = 0
    THEN Updated(Put(result, "i", Num(result.i.n + 1)),
                 Step(T, k + 1, m, Get(result, "value"), input))
    ELSE Ret(m, Put(result, "i", Num(result.i.n + 1)))

\* ----- reducers.ts: the terminal transformers -----

\* toArray()'s step: result.push(input); return result.
ToArrayStep(m, result, input) ==
    IF result.t # "arr" THEN Throw(m)
    ELSE Ret(m, Arr(Append(result.a, input)))

\* A faulty first(), for comparison: the input is kept without Reduced.
FirstStepKeep(m, result, input) == Ret(m, input)

\* first()'s step: reduced(input).
FirstStep(m, result, input) == Ret(m, reduced(input))

\* A faulty isEmpty, for comparison: its step returns false unwrapped.
IsEmptyStepOn(m, result, input) == Ret(m, Bool(FALSE))

\* isEmpty()'s step: reduced(false).
IsEmptyStep(m, result, input) == Ret(m, reduced(Bool(FALSE)))

\* ----- core.ts: ReducerWrappingTransformer, and a transformer literal -----

\* A faulty ReducerWrappingTransformer[INIT], for comparison: the initial
\* value supplied is not the one returned.
ReducerWrappingInitNone(initialValue) == Undefined

\* ReducerWrappingTransformer[INIT]: return this.initialValue.
ReducerWrappingInit(initialValue) == initialValue

\* ReducerWrappingTransformer[STEP] is f itself; array.push throws a
\* TypeError when the accumulator is not an array.
ReducerWrappingStep(T, k, m, result, input) ==
    IF result.t # "arr" THEN Throw(m)
    ELSE Ret(m, Reduces(T[k].f, result, input))

\* ReducerWrappingTransformer[RESULT]: return result.
ReducerWrappingResult(m, result) == Ret(m, result)

\* The transformer of the tests, an object literal:
\* { init: () => initialValue, result: x => x, step: f }.
LiteralStep(T, k, m, result, input) ==
    IF result.t # "arr" THEN Throw(m)
    ELSE Ret(m, Reduces(T[k].f, result, input))

\* ----- reducers.ts: the group-by transformers -----
\* ToMapGroupBy / ToObjectGroupBy at place k hold the supplied transformer
\* this.xf, the transformers from place k + 1 on: one transformer object,
\* wrapped by the InProgressTransformer of every key. The accumulator lists
\* the keys in insertion order and gives each key's InProgressTransformer.

\* new InProgressTransformer(this.xf): this.result = xf[INIT]().
NewInProgress(init) == [result |-> init, isReduced |-> FALSE]

\* InProgressTransformer.step once newResult = this.xf[STEP](...) is known.
InProgressStepped(newResult) ==
    IF newResult.err THEN newResult
    ELSE Ret(newResult.m,
             IF isReduced(newResult.r)
             THEN [result |-> newResult.r.value, isReduced |-> TRUE]
             ELSE [result |-> newResult.r, isReduced |-> FALSE])

\* A faulty InProgressTransformer.step, for comparison: isReduced is ignored.
InProgressStepAgain(T, k, m, inProgress, input) ==
    InProgressStepped(Step(T, k + 1, m, inProgress.result, input))

\* InProgressTransformer.step(input)
InProgressStep(T, k, m, inProgress, input) ==
    IF inProgress.isReduced THEN Ret(m, inProgress)
    ELSE InProgressStepped(Step(T, k + 1, m, inProgress.result, input))

\* The accumulator with the key's InProgressTransformer after its step.
GroupBySet(result, key, stepped) ==
    IF stepped.err THEN stepped
    ELSE Ret(stepped.m,
             [result EXCEPT
                !.keys = IF key \in DOMAIN result.at THEN @ ELSE Append(@, key),
                !.at = Put(@, key, stepped.r)])

\* The step once key = this.getKey(item) is computed.
GroupByKeyed(T, k, m, result, item, key, init) ==
    GroupBySet(result, key,
        InProgressStep(T, k, m,
            IF key \in DOMAIN result.at THEN result.at[key] ELSE NewInProgress(init),
            item))

GroupByStep(T, k, m, result, item) ==
    GroupByKeyed(T, k, m, result, item, Call(T[k].f, item), InitOf(T, k + 1))

\* ----- one step of transformer k of the composed transformer T -----

StepOf(T, k, m, result, input) ==
    LET op == T[k].op
    IN  CASE op = "dedupe" -> DedupeStep(T, k, m, result, input)
          [] op = "drop" -> DropStep(T, k, m, result, input)
          [] op = "dropWhile" -> DropWhileStep(T, k, m, result, input)
          [] op = "filter" -> FilterStep(T, k, m, result, input)
          [] op = "remove" -> RemoveStep(T, k, m, result, input)
          [] op = "flatMap" -> FlatMapStep(T, k, m, result, input)
          [] op = "interpose" -> InterposeStep(T, k, m, result, input)
          [] op = "map" -> MapStep(T, k, m, result, input)
          [] op = "partitionAll" -> PartitionAllStep(T, k, m, result, input)
          [] op = "partitionBy" -> PartitionByStep(T, k, m, result, input)
          [] op = "take" -> TakeStep(T, k, m, result, input)
          [] op = "takeNth" -> TakeNthStep(T, k, m, result, input)
          [] op = "takeWhile" -> TakeWhileStep(T, k, m, result, input)
          [] op = "toArray" -> ToArrayStep(m, result, input)
          [] op = "first" -> FirstStep(m, result, input)
          [] op = "isEmpty" -> IsEmptyStep(m, result, input)
          [] op = "ReducerWrappingTransformer" ->
                ReducerWrappingStep(T, k, m, result, input)
          [] op = "literal" -> LiteralStep(T, k, m, result, input)
          [] op \in {"toMapGroupBy", "toObjectGroupBy"} ->
                GroupByStep(T, k, m, result, input)

\* The record of a Reduced return: how many inputs the transformer had seen.
Recorded(k, d) ==
    IF ~d.err /\ isReduced(d.r)
    THEN [d EXCEPT !.m.redAt[k] = IF @ = 0 THEN Len(d.m.seen[k]) ELSE @,
                   !.m.reds[k] = @ \cup {Len(d.m.seen[k])},
                   !.m.nested[k] = @ \/ isReduced(d.r.value)]
    ELSE d

\* The record of a return: how far the transformer downstream has been fed.
Counted(k, d) ==
    IF d.err THEN d
    ELSE [d EXCEPT !.m.upTo[k] =
              Append(@, IF k < Len(d.m.seen) THEN Len(d.m.seen[k + 1]) ELSE 0)]

\* The record of a call: whether the accumulator handed to transformer k
\* was a Reduced box.
Entered(k, m, result) == [m EXCEPT !.boxed[k] = @ \/ isReduced(result)]

\* T[k][STEP](result, input), with the call and its return recorded.
Step(T, k, m, result, input) ==
    Counted(k, Recorded(k, StepOf(T, k, [Entered(k, m, result) EXCEPT
                                            !.seen[k] = Append(@, input)],
                                  result, input)))

\* ----- core.ts: the reduction engine -----

\* A faulty loop, for comparison: a Reduced return is unwrapped and the loop
\* goes on to the end of the collection.
LoopedExhaust(T, k, collection, j, next) ==
    IF next.err
    THEN [m |-> next.m, r |-> next.r, err |-> next.err, pulled |-> j]
    ELSE reduceWithFunction(T, k, next.m, collection, j + 1, unreduced(next.r))

\* The loop of reduceWithFunction, with f the step of transformer k, from the
\* j-th element of the collection on: pull, step, and return at once when the
\* step returns Reduced. pulled counts the elements taken from the collection.
\* next is what f(result, input.value) returned.
Looped(T, k, collection, j, next) ==
    IF next.err \/ isReduced(next.r)
    THEN [m |-> next.m, r |-> next.r, err |-> next.err, pulled |-> j]
    ELSE reduceWithFunction(T, k, next.m, collection, j + 1, next.r)

reduceWithFunction(T, k, m, collection, j, result) ==
    IF j > Len(collection)
    THEN [m |-> m, r |-> result, err |-> FALSE, pulled |-> j - 1]
    ELSE Looped(T, k, collection, j, Step(T, k, m, result, collection[j]))

\* T[k][INIT]()
InitOf(T, k) ==
    LET op == T[k].op
    IN  CASE op = "toArray" -> Arr(<<>>)
          [] op = "first" -> Null
          [] op = "isEmpty" -> Bool(TRUE)
          [] op = "ReducerWrappingTransformer" -> ReducerWrappingInit(T[k].n)
          [] op = "literal" -> T[k].n
          [] op \in {"toMapGroupBy", "toObjectGroupBy"} ->
                [t |-> "map", keys |-> <<>>, at |-> <<>>]
          [] op = "dedupe" ->
                [t |-> "obj", last |-> [t |-> "obj"], value |-> InitOf(T, k + 1)]
          [] op = "dropWhile" ->
                [t |-> "obj", value |-> InitOf(T, k + 1),
                 isDoneDropping |-> Bool(FALSE)]
          [] op = "partitionBy" ->
                [t |-> "obj", value |-> InitOf(T, k + 1), buffer |-> Arr(<<>>),
                 lastKey |-> INITIAL_LAST_KEY]
          [] op = "takeNth" ->
                [t |-> "obj", value |-> InitOf(T, k + 1), i |-> Num(0)]
          [] OTHER -> InitOf(T, k + 1)

\* result = unreduced(this.xf[STEP](result, this.buffer)); this.buffer = []
Flushed(k, d) ==
    IF d.err THEN d
    ELSE [d EXCEPT !.r = unreduced(@), !.m.xf[k].buffer = Arr(<<>>)]

\* A faulty PartitionAll[RESULT], for comparison: the buffer is not flushed.
PartitionAllNoFlush(T, k, m, result) == Ret(m, result)

\* A faulty flush, for comparison: the buffer is forwarded a second time.
FlushedAgain(T, k, d) ==
    IF d.err THEN d
    ELSE Step(T, k + 1, d.m, unreduced(d.r), d.m.xf[k].buffer)

\* A faulty PartitionAll[RESULT], for comparison: the buffer is forwarded twice.
PartitionAllFlushTwice(T, k, m, result) ==
    IF Len(m.xf[k].buffer.a) > 0
    THEN Flushed(k, FlushedAgain(T, k, Step(T, k + 1, m, result, m.xf[k].buffer)))
    ELSE Ret(m, result)

\* PartitionAll[RESULT]: what it passes on to this.xf[RESULT].
PartitionAllFlush(T, k, m, result) ==
    IF Len(m.xf[k].buffer.a) > 0
    THEN Flushed(k, Step(T, k + 1, m, result, m.xf[k].buffer))
    ELSE Ret(m, result)

\* result.value = unreduced(this.xf[STEP](result.value, result.buffer))
Unreduced(d) == IF d.err THEN d ELSE Ret(d.m, unreduced(d.r))

\* A faulty PartitionBy[RESULT], for comparison: the buffer is not flushed.
PartitionByNoFlush(T, k, m, result) == Ret(m, Get(result, "value"))

\* PartitionBy[RESULT]: what it passes on to this.xf[RESULT].
PartitionByFlush(T, k, m, result) ==
    IF IsNullish(result) \/ Get(result, "buffer").t # "arr" THEN Throw(m)
    ELSE IF Len(result.buffer.a) > 0
    THEN Unreduced(Step(T, k + 1, m, Get(result, "value"), result.buffer))
    ELSE Ret(m, Get(result, "value"))

RECURSIVE ResultOf(_, _, _, _)
RECURSIVE ResultAt(_, _, _, _)
RECURSIVE GroupByResult(_, _, _, _, _, _, _)

\* The numeric keys in ascending order, as Object.keys lists them.
RECURSIVE Ascending(_)
Ascending(keys) ==
    IF keys = {} THEN <<>>
    ELSE <<CHOOSE c \in keys : \A o \in keys : c.n <= o.n>>
            \o Ascending(keys \ {CHOOSE c \in keys : \A o \in keys : c.n <= o.n})

\* completeResult.set(key, value.getResult()), and on to the next entry.
GroupByGot(T, k, result, order, i, completeResult, got) ==
    IF got.err THEN got
    ELSE GroupByResult(T, k, got.m, result, order, i + 1,
                       Put(completeResult, order[i], got.r))

\* The loop over the entries in ToMapGroupBy[RESULT] / ToObjectGroupBy[RESULT]:
\* getResult() is this.xf[RESULT](this.result).
GroupByResult(T, k, m, result, order, i, completeResult) ==
    IF i > Len(order)
    THEN Ret(m, [t |-> "map", keys |-> order, at |-> completeResult])
    ELSE GroupByGot(T, k, result, order, i, completeResult,
                    ResultOf(T, k + 1, m, result.at[order[i]].result))

\* return this.xf[RESULT](result), after the flush d
ResultAfter(T, k, d) == IF d.err THEN d ELSE ResultOf(T, k + 1, d.m, d.r)

\* T[k][RESULT](result), with the call recorded.
ResultOf(T, k, m, result) == ResultAt(T, k, Entered(k, m, result), result)

\* T[k][RESULT](result)
ResultAt(T, k, m, result) ==
    LET op == T[k].op
    IN  CASE op \in {"toArray", "first", "isEmpty", "literal"} -> Ret(m, result)
          [] op = "ReducerWrappingTransformer" -> ReducerWrappingResult(m, result)
          [] op = "toMapGroupBy" ->
                GroupByResult(T, k, m, result, result.keys, 1, <<>>)
          [] op = "toObjectGroupBy" ->
                GroupByResult(T, k, m, result, Ascending(DOMAIN result.at), 1, <<>>)
          [] op \in {"dedupe", "dropWhile", "takeNth"} ->
                IF IsNullish(result) THEN Throw(m)
                ELSE ResultOf(T, k + 1, m, Get(result, "value"))
          [] op = "partitionAll" ->
                ResultAfter(T, k, PartitionAllFlush(T, k, m, result))
          [] op = "partitionBy" ->
                ResultAfter(T, k, PartitionByFlush(T, k, m, result))
          [] OTHER -> ResultOf(T, k + 1, m, result)

\* return f[RESULT](unreduced(uncompleteResult))
Completed(T, uncompleteResult) ==
    IF uncompleteResult.err THEN uncompleteResult
    ELSE ResultOf(T, 1, uncompleteResult.m, unreduced(uncompleteResult.r))

reduceWithTransformer(collection, T) ==
    Completed(T, reduceWithFunction(T, 1, NewMachine(T), collection, 1, InitOf(T, 1)))

\* ----- chain.ts: the chain builder -----

\* A stage as the chain holds it: the stage's name, its number (the n of
\* take, drop and partitionAll, the separator of interpose; for a reducing
\* transformer built around a function, its initial value) and its function.
Stage(op, n, f) == [op |-> op, n |-> n, f |-> f]

\* A faulty partitionAll(n), for comparison: the size is not checked.
partitionAllUnchecked(n) == Stage("partitionAll", n, "")

\* partitionAll(n): the transducer, or the Error thrown.
partitionAll(n) ==
    IF n = 0 THEN Error("Size in partitionAll() cannot be 0")
    ELSE IF n < 0 THEN Error("Size in partitionAll() cannot be negative")
    ELSE Stage("partitionAll", n, "")

\* takeNth(n): the transducer, or the Error thrown.
takeNth(n) ==
    IF n = 0 THEN Error("Step in takeNth() cannot be 0")
    ELSE IF n < 0 THEN Error("Step in takeNth() cannot be negative")
    ELSE Stage("takeNth", n, "")

\* The argument of this.compose(...) in the chain method called: the stage
\* function applied to the method's arguments.
Transducer(call) ==
    CASE call.op = "partitionAll" -> partitionAll(call.n)
      [] call.op = "takeNth" -> takeNth(call.n)
      [] OTHER -> Stage(call.op, call.n, call.f)

\* The loop of build(): for (i = length - 1; i >= 0; i--) result =
\* transducers[i](result). Applying a transducer wraps the transformer: the
\* new transformer is listed first and steps the rest.
RECURSIVE buildLoop(_, _, _)
buildLoop(transducers, i, result) ==
    IF i < 1 THEN result
    ELSE buildLoop(transducers, i - 1, <<transducers[i]>> \o result)

build(transducers, x) == buildLoop(transducers, Len(transducers), x)

\* The transformer a terminal method hands to reduce(): toArray(), first(),
\* find(pred) = filter(pred)(first()), toMapGroupBy(getKey, transformer)
\* with first() and with take(2)(toArray()) as the transformer, and
\* toObjectGroupBy(getKey) with its default toArray().
Reducer(terminal) ==
    CASE terminal = "toArray" -> <<Stage("toArray", 0, "")>>
      [] terminal = "first" -> <<Stage("first", 0, "")>>
      [] terminal = "find" -> <<Stage("filter", 0, "isEven"), Stage("first", 0, "")>>
      [] terminal = "every" -> <<Stage("remove", 0, "lt2"), Stage("isEmpty", 0, "")>>
      [] terminal = "toMapGroupBy(first())" ->
            <<Stage("toMapGroupBy", 0, "key"), Stage("first", 0, "")>>
      [] terminal = "toMapGroupBy(take(2)(toArray()))" ->
            <<Stage("toMapGroupBy", 0, "key"), Stage("take", 2, ""),
              Stage("toArray", 0, "")>>
      [] terminal = "toObjectGroupBy()" ->
            <<Stage("toObjectGroupBy", 0, "key"), Stage("toArray", 0, "")>>

\* ----- the chains and sources of the model -----

\* The chain method calls made: the method and its arguments.
Menu ==
    {Stage("map", 0, "inc"), Stage("filter", 0, "isEven"),
     Stage("take", -1, ""), Stage("take", 0, ""), Stage("take", 1, ""),
     Stage("take", 2, ""),
     Stage("takeWhile", 0, "lt2"), Stage("drop", 1, ""), Stage("drop", 0, ""),
     Stage("dropWhile", 0, "lt2"), Stage("dedupe", 0, ""),
     Stage("flatMap", 0, "dup"), Stage("flatMap", 0, "ident"),
     Stage("interpose", 3, ""), Stage("partitionAll", 2, ""),
     Stage("partitionBy", 0, "ident"), Stage("takeNth", 2, ""),
     Stage("partitionAll", 0, ""), Stage("partitionAll", -1, ""),
     Stage("takeNth", 0, ""), Stage("takeNth", -1, "")}

\* The declared element types (TransformChain<T>): a stage call compiles only
\* on a chain whose elements its function accepts.
Accepts(s, ty) ==
    CASE s.op \in {"take", "drop", "dedupe", "takeNth", "partitionAll"} -> TRUE
      [] s.op = "flatMap" /\ s.f = "ident" -> ty = "arr"
      [] OTHER -> ty = "num"

ElementType(s, ty) ==
    CASE s.op \in {"partitionAll", "partitionBy"} -> "arr"
      [] s.op = "flatMap" -> "num"
      [] OTHER -> ty

RECURSIVE TypeOf(_)
TypeOf(chain) ==
    IF chain = <<>> THEN "num"
    ELSE ElementType(chain[Len(chain)], TypeOf(SubSeq(chain, 1, Len(chain) - 1)))

\* find(pred: (item: T) => boolean) and every(pred: (item: T) => boolean)
\* compile only on a chain whose elements the predicate accepts.
Takes(t, ty) == t \in {"find", "every"} => ty = "num"

Sources == UNION {[1..n -> {Num(v) : v \in Values}] : n \in 0..MaxLen}

\* transduce(collection, this.build(), reducer): what a terminal method of the
\* chain returns.
transduce(collection, transducers, reducer) ==
    reduceWithTransformer(collection, build(transducers, reducer))

\* The arguments of reduce(): a plain function with an initial value, or a
\* transformer (here the literal around the same function and value).
Function(f, initialValue) == [typeof |-> "function", f |-> f, initialValue |-> initialValue]

Literal(f, initialValue) ==
    [typeof |-> "object", f |-> f, initialValue |-> initialValue]

\* transduce()'s choice of transformer: typeof reducer === "function" ?
\* new ReducerWrappingTransformer(reducer, initialValue) : reducer.
TransformerOf(reducer) ==
    IF reducer.typeof = "function"
    THEN <<Stage("ReducerWrappingTransformer", reducer.initialValue, reducer.f)>>
    ELSE <<Stage("literal", reducer.initialValue, reducer.f)>>

\* ----- iterables.ts: the lazy iterator -----

\* new ArrayIterator(array)
ArrayIterator(array) == [array |-> array, i |-> 0]

\* An iterable as constructed: it.cursor is the place of the source's
\* iterator, it.polls the number of next() calls made on it, it.m the
\* instances of xfToArray; it.produced records, for each source element
\* pulled, the backlog left when it was pulled and the number of outputs it
\* gave.
NewIterable(T) ==
    [upcoming |-> ArrayIterator(Arr(<<>>)), hasSeenEnd |-> FALSE, cursor |-> 0,
     polls |-> 0, m |-> NewMachine(T), produced |-> <<>>]

\* What a next() call returns, and the iterable it leaves.
Returned(it, end, value) == [it |-> it, end |-> end, value |-> value]

\* The outputs an ArrayIterator still holds.
Left(upcoming) ==
    IF upcoming.array.t = "arr" THEN Len(upcoming.array.a) - upcoming.i ELSE 0

\* A faulty backlog test, for comparison: the backlog always reads as empty.
BacklogNone(upcoming) == 0

\* this.upcoming.next(): i < array.length, the outputs not yet handed out.
Backlog(upcoming) == Left(upcoming)

\* A faulty end test, for comparison: a Reduced step is not remembered.
SeenEndNever(it, outValues) == it.hasSeenEnd

\* if (isReduced(outValues)) { this.hasSeenEnd = true; ... }
SeenEnd(it, outValues) == it.hasSeenEnd \/ isReduced(outValues)

\* const { done, value } = this.iterator.next() on an exhausted source:
\* return { done }; hasSeenEnd stays as it was.
SourceDone(it) == Returned([it EXCEPT !.polls = @ + 1], "done", Undefined)

\* const { done, value } = this.iterator.next() on a source with elements
\* left: the source's iterator moves on.
SourcePulled(it) == [it EXCEPT !.cursor = @ + 1, !.polls = @ + 1]

RECURSIVE IterableNext(_, _, _)

\* outValues = this.xfToArray[STEP]([], value); if (isReduced(outValues))
\* { this.hasSeenEnd = true; outValues = outValues[VALUE]; }
\* this.upcoming = new ArrayIterator(outValues); and around the loop again.
Enqueued(T, collection, it, outValues) ==
    IF outValues.err
    THEN Returned([it EXCEPT !.m = outValues.m,
                             !.produced = Append(@, [backlog |-> Left(it.upcoming),
                                                     gave |-> 0])],
                  "threw", Undefined)
    ELSE IterableNext(T, collection,
            [it EXCEPT !.m = outValues.m,
                       !.hasSeenEnd = SeenEnd(it, outValues.r),
                       !.upcoming = ArrayIterator(unreduced(outValues.r)),
                       !.produced = Append(@,
                            [backlog |-> Left(it.upcoming),
                             gave |-> Left(ArrayIterator(unreduced(outValues.r)))])])

\* TransducerIterable.next(), the source's iterator being at it.cursor.
\* ArrayIterator.next() reads array.length: a TypeError on undefined.
IterableNext(T, collection, it) ==
    IF IsNullish(it.upcoming.array) THEN Returned(it, "threw", Undefined)
    ELSE IF Backlog(it.upcoming) > 0
    THEN Returned([it EXCEPT !.upcoming.i = @ + 1], "value",
                  it.upcoming.array.a[it.upcoming.i + 1])
    ELSE IF it.hasSeenEnd THEN Returned(it, "done", Undefined)
    ELSE IF it.cursor >= Len(collection) THEN SourceDone(it)
    ELSE Enqueued(T, collection, SourcePulled(it),
                  Step(T, 1, it.m, Arr(<<>>), collection[it.cursor + 1]))

\* A faulty getIterator, for comparison: an iterator is started over.
getIteratorRewound(kind, i) == 0

\* getIterator(collection): collection[Symbol.iterator](). An array gives a
\* new iterator, at its first element; an iterator gives itself, at the
\* place i it has reached.
getIterator(kind, i) == IF kind = "iterator" THEN i ELSE 0

\* ----- the state -----

VARIABLES
    collection,   \* TransducerChain.collection: the source array
    transducers,  \* TransducerChain.transducers: the stages, as declared
    pc,           \* "chain": no terminal method called yet; then the place
                  \* of the call: "loop", "result", "done", "threw", or
                  \* "iter": toIterator() has returned the iterable
    terminal,     \* the terminal method called
    xform,        \* the composed transformer (f of reduceWithTransformer,
                  \* xfToArray of TransducerIterable)
    machine,      \* its instances and the record of their calls
    cursor,       \* ArrayIterator.i of the source's iterator
    result,       \* reduceWithFunction's result
    resultArgs,   \* the arguments f[RESULT] was called with
    ret,          \* what the terminal method returned, or the Error a
                  \* chain method threw
    iterable,     \* the TransducerIterable: upcoming, hasSeenEnd, iterator
    out,          \* the values next() has returned so far
    lastNext,     \* how the last next() call ended: "value", "done", "threw"
    uses,         \* how many times the transducer build() returned was applied
    chains,       \* the TransducerChain objects there are: of each, its
                  \* this.transducers
    refs,         \* the references the caller holds, in the order obtained:
                  \* what chainFrom() and every chain method returned
    log,          \* the chain method calls made through the references
    built,        \* the transducer build() returned: the object its closure
                  \* reads, and the stages that object had at the call
    via,          \* the reference a terminal method was called through
    sourceKind,   \* what chainFrom() was given: an "array", or an
                  \* "iterator" over the same elements
    firstPulled   \* the elements a terminal operation before this one pulled
                  \* from the same source

vars ==
    <<collection, transducers, pc, terminal, xform, machine, cursor, result,
      resultArgs, ret, iterable, out, lastNext, uses, chains, refs, log, built,
      via, sourceKind, firstPulled>>

sharedVars == <<chains, refs, log, built, via>>

oneShotVars == <<sourceKind, firstPulled>>

eagerVars == <<machine, cursor, result, resultArgs, ret>>

lazyVars == <<iterable, out, lastNext>>

\* chainFrom(collection), whatever collection is.
InitChain ==
    /\ collection \in Sources
    /\ transducers = <<>>
    /\ pc = "chain"
    /\ terminal = "none"
    /\ xform = <<>>
    /\ machine = NewMachine(<<>>)
    /\ cursor = 0
    /\ result = Undefined
    /\ resultArgs = <<>>
    /\ ret = Undefined
    /\ iterable = NewIterable(<<>>)
    /\ out = <<>>
    /\ lastNext = "none"
    /\ uses = 0
    /\ chains = <<<<>>>>
    /\ refs = <<1>>
    /\ log = <<>>
    /\ built = <<>>
    /\ via = 0
    /\ firstPulled = <<>>

\* chainFrom(collection), collection being an array.
Init == InitChain /\ sourceKind = "array"

\* ----- a chain method: this.compose(stage(arguments)) -----

\* One chain method call on a chain of the element type the call accepts.
\* The stage function runs first: when it throws, nothing is composed.
Compose(call) ==
    /\ pc = "chain"
    /\ Len(transducers) < MaxStages
    /\ Accepts(call, TypeOf(transducers))
    /\ \E transducer \in {Transducer(call)} :
           IF IsError(transducer)
           THEN /\ pc' = "threw"
                /\ ret' = transducer
                /\ UNCHANGED transducers
           ELSE /\ transducers' = Append(transducers, transducer)
                /\ UNCHANGED <<pc, ret>>
    /\ UNCHANGED <<collection, terminal, xform, machine, cursor, result,
                   resultArgs, lazyVars, uses,
                   sharedVars, oneShotVars>>

\* ----- a terminal method: transduce(collection, build(), reducer) -----

Terminals == {"toArray", "first", "find", "every"}

\* The group-by terminal methods, with the transformers handed to them.
GroupByTerminals ==
    {"toMapGroupBy(first())", "toMapGroupBy(take(2)(toArray()))",
     "toObjectGroupBy()"}

\* transduce() up to the loop: the transformer is composed, its instances
\* are built, the source's iterator is taken and f[INIT]() is called.
Reduce(t) ==
    /\ pc = "chain"
    /\ Takes(t, TypeOf(transducers))
    /\ terminal' = t
    /\ xform' = build(transducers, Reducer(t))
    /\ machine' = NewMachine(xform')
    /\ result' = InitOf(xform', 1)
    /\ cursor' = getIterator(sourceKind, cursor)
    /\ pc' = "loop"
    /\ UNCHANGED <<collection, transducers, resultArgs, ret, lazyVars, uses,
                   sharedVars, oneShotVars>>

\* A faulty loop turn, for comparison: a Reduced return does not end the loop.
LoopNoStop ==
    /\ pc = "loop"
    /\ IF cursor >= Len(collection)
       THEN /\ pc' = "result"
            /\ UNCHANGED <<cursor, machine, result>>
       ELSE \E next \in {Step(xform, 1, machine, result, collection[cursor + 1])} :
                /\ cursor' = cursor + 1
                /\ machine' = next.m
                /\ result' = next.r
                /\ pc' = IF next.err THEN "threw" ELSE "loop"
    /\ ret' = IF pc' = "threw" THEN result' ELSE ret
    /\ UNCHANGED <<collection, transducers, terminal, xform, resultArgs,
                   lazyVars, uses,
                   sharedVars, oneShotVars>>

\* One turn of reduceWithFunction's loop: the pull, and the step. What the
\* step throws leaves reduceWithFunction, reduceWithTransformer, transduce
\* and the terminal method: ret is then what was thrown.
Loop ==
    /\ pc = "loop"
    /\ IF cursor >= Len(collection)
       THEN /\ pc' = "result"
            /\ UNCHANGED <<cursor, machine, result>>
       ELSE \E next \in {Step(xform, 1, machine, result, collection[cursor + 1])} :
                /\ cursor' = cursor + 1
                /\ machine' = next.m
                /\ result' = next.r
                /\ pc' = IF next.err THEN "threw"
                         ELSE IF isReduced(next.r) THEN "result"
                         ELSE "loop"
    /\ ret' = IF pc' = "threw" THEN result' ELSE ret
    /\ UNCHANGED <<collection, transducers, terminal, xform, resultArgs,
                   lazyVars, uses,
                   sharedVars, oneShotVars>>

\* reduceWithTransformer's return f[RESULT](unreduced(uncompleteResult)).
Complete ==
    /\ pc = "result"
    /\ \E d \in {ResultOf(xform, 1, machine, unreduced(result))} :
           /\ resultArgs' = Append(resultArgs, unreduced(result))
           /\ machine' = d.m
           /\ ret' = d.r
           /\ pc' = IF d.err THEN "threw" ELSE "done"
    /\ UNCHANGED <<collection, transducers, terminal, xform, cursor, result,
                   lazyVars, uses,
                   sharedVars, oneShotVars>>

Next ==
    \/ \E call \in Menu : Compose(call)
    \/ \E t \in Terminals : Reduce(t)
    \/ Loop
    \/ Complete

Spec == Init /\ [][Next]_vars

\* The reductions that end in a group-by terminal method.
NextGroupBy ==
    \/ \E call \in Menu : Compose(call)
    \/ \E t \in GroupByTerminals : Reduce(t)
    \/ Loop
    \/ Complete

SpecGroupBy == Init /\ [][NextGroupBy]_vars

\* ----- reductions whose functions throw -----

\* The chain method calls made with the functions that throw, among others.
ThrowingMenu ==
    {Stage("map", 0, "incOrThrow"), Stage("filter", 0, "lt2OrThrow"),
     Stage("takeWhile", 0, "lt2OrThrow"), Stage("partitionBy", 0, "identOrThrow"),
     Stage("map", 0, "inc"), Stage("take", 2, ""), Stage("flatMap", 0, "dup"),
     Stage("partitionAll", 2, ""), Stage("dedupe", 0, "")}

NextThrows ==
    \/ \E call \in ThrowingMenu : Compose(call)
    \/ \E t \in Terminals : Reduce(t)
    \/ Loop
    \/ Complete

SpecThrows == Init /\ [][NextThrows]_vars

\* ----- reduce(reducer, initialValue) and reduce(transformer) -----

ReducerArguments ==
    {Function("aPush", Arr(<<>>)), Function("aPushUntil2", Arr(<<>>)),
     Literal("aPush", Arr(<<>>)), Literal("aPushUntil2", Arr(<<>>))}

\* TransducerChain.reduce up to the loop.
ReduceWith(reducer) ==
    /\ pc = "chain"
    /\ terminal' = reducer
    /\ xform' = build(transducers, TransformerOf(reducer))
    /\ machine' = NewMachine(xform')
    /\ result' = InitOf(xform', 1)
    /\ cursor' = 0
    /\ pc' = "loop"
    /\ UNCHANGED <<collection, transducers, resultArgs, ret, lazyVars, uses,
                   sharedVars, oneShotVars>>

NextReduce ==
    \/ \E call \in Menu : Compose(call)
    \/ \E reducer \in ReducerArguments : ReduceWith(reducer)
    \/ Loop
    \/ Complete

SpecReduce == Init /\ [][NextReduce]_vars

\* ----- transducerBuilder() ... build(), and the transducer's uses -----

\* build() on the builder's chain: the transducer returned is a closure over
\* the builder; pc "built" is the builder holding the stages composed.
Build ==
    /\ pc = "chain"
    /\ pc' = "built"
    /\ UNCHANGED <<collection, transducers, terminal, xform, eagerVars,
                   lazyVars, uses,
                   sharedVars, oneShotVars>>

\* A faulty application, for comparison: the instances made by the
\* application before are used again.
AppliedKept(T, m) ==
    IF Len(m.xf) = Len(T) THEN [NewMachine(T) EXCEPT !.xf = m.xf]
    ELSE NewMachine(T)

\* The transducer applied to a transformer: the closure's loop calls every
\* stage function, xf => new Take(xf, n) and the like, so every instance is
\* new; m holds the instances of the application before.
Applied(T, m) == NewMachine(T)

\* The terminal methods of the reductions made with the built transducer.
UseTerminals == {"toArray", "first"}

\* chainFrom(collection).compose(transducer) followed by a terminal method,
\* up to the loop: the chain's build() applies the transducer to the reducer.
Use(t) ==
    /\ pc \in {"built", "done"}
    /\ uses < MaxUses
    /\ Takes(t, TypeOf(transducers))
    /\ uses' = uses + 1
    /\ terminal' = t
    /\ xform' = build(transducers, Reducer(t))
    /\ machine' = Applied(xform', machine)
    /\ result' = InitOf(xform', 1)
    /\ cursor' = 0
    /\ resultArgs' = <<>>
    /\ ret' = Undefined
    /\ pc' = "loop"
    /\ UNCHANGED <<collection, transducers, lazyVars, sharedVars, oneShotVars>>

\* The chain methods called on the builder: the stages whose instances hold
\* state of their own (take, drop, interpose, partitionAll), and some that
\* hold none or keep it in the accumulator.
BuilderMenu ==
    {Stage("take", 1, ""), Stage("take", 2, ""), Stage("drop", 1, ""),
     Stage("interpose", 3, ""), Stage("partitionAll", 2, ""),
     Stage("map", 0, "inc"), Stage("filter", 0, "isEven"), Stage("dedupe", 0, ""),
     Stage("partitionBy", 0, "ident"), Stage("takeNth", 2, "")}

NextBuilder ==
    \/ \E call \in BuilderMenu : Compose(call)
    \/ Build
    \/ \E t \in UseTerminals : Use(t)
    \/ Loop
    \/ Complete

SpecBuilder == Init /\ [][NextBuilder]_vars

\* ----- one chain behind several references -----

\* The chain method calls made on one chain, the throwing ones included.
MaxCalls == MaxStages + 1

\* The chain methods called through the references.
SharedMenu ==
    {Stage("map", 0, "inc"), Stage("take", 1, ""), Stage("partitionAll", 2, ""),
     Stage("partitionAll", 0, ""), Stage("takeNth", 0, "")}

\* The terminal method called through the references.
SharedTerminals == {"toArray"}

\* A faulty compose, for comparison: the stages are copied into a new chain
\* object, and the new object is returned.
ComposedFresh(objs, this, transducer) ==
    [objs |-> Append(objs, Append(objs[this], transducer)), ret |-> Len(objs) + 1]

\* compose(): this.transducers.push(transducer); return this
Composed(objs, this, transducer) ==
    [objs |-> [objs EXCEPT ![this] = Append(@, transducer)], ret |-> this]

\* A faulty chain method, for comparison: the stage is pushed although the
\* stage function threw.
RejectedComposed(objs, this, call) ==
    [objs EXCEPT ![this] = Append(@, Stage(call.op, call.n, call.f))]

\* return this.compose(partitionAll(n)): the argument is evaluated first, and
\* when it throws compose() is not called.
Rejected(objs, this, call) == objs

\* refs[i].method(arguments): a chain method called through a reference the
\* caller holds; what it returns is one more reference. The caller catches
\* what it throws, and goes on.
CallOn(i, call) ==
    /\ pc = "chain"
    /\ i \in 1..Len(refs)
    /\ Len(log) < MaxCalls
    /\ Len(chains[refs[i]]) < MaxStages
    /\ Accepts(call, TypeOf(chains[refs[i]]))
    /\ \E transducer \in {Transducer(call)} :
           IF IsError(transducer)
           THEN /\ chains' = Rejected(chains, refs[i], call)
                /\ ret' = transducer
                /\ log' = Append(log, [call |-> call, threw |-> TRUE])
                /\ UNCHANGED refs
           ELSE \E composed \in {Composed(chains, refs[i], transducer)} :
                    /\ chains' = composed.objs
                    /\ refs' = Append(refs, composed.ret)
                    /\ log' = Append(log, [call |-> call, threw |-> FALSE])
                    /\ UNCHANGED ret
    /\ UNCHANGED <<collection, transducers, pc, terminal, xform, machine, cursor,
                   result, resultArgs, lazyVars, uses, built, via, oneShotVars>>

\* refs[i].build(): the closure returned keeps this, the chain object, and
\* reads this.transducers when it is applied; built.had records the stages
\* the object had when build() was called.
BuildOn(i) ==
    /\ pc = "chain"
    /\ i \in 1..Len(refs)
    /\ built = <<>>
    /\ built' = [this |-> refs[i], had |-> chains[refs[i]]]
    /\ UNCHANGED <<collection, transducers, pc, terminal, xform, eagerVars,
                   lazyVars, uses, chains, refs, log, via, oneShotVars>>

\* The terminal method's whole call, transduce(collection, build(), reducer),
\* on the chain of stages `stages`.
Terminated(t, stages) ==
    \E d \in {transduce(collection, stages, Reducer(t))} :
        /\ terminal' = t
        /\ ret' = d.r
        /\ pc' = IF d.err THEN "threw" ELSE "done"

\* refs[i].toArray() and the like: a terminal method called through a
\* reference the caller holds.
TerminalOn(i, t) ==
    /\ pc = "chain"
    /\ i \in 1..Len(refs)
    /\ Takes(t, TypeOf(chains[refs[i]]))
    /\ Terminated(t, chains[refs[i]])
    /\ via' = i
    /\ UNCHANGED <<collection, transducers, xform, machine, cursor, result,
                   resultArgs, lazyVars, uses, chains, refs, log, built,
                   oneShotVars>>

\* chainFrom(collection).compose(transducer) followed by a terminal method,
\* transducer being what build() returned: its loop runs over the
\* this.transducers of the chain object it was built on, as they are now.
UseBuilt(t) ==
    /\ pc = "chain"
    /\ built # <<>>
    /\ Takes(t, TypeOf(chains[built.this]))
    /\ Terminated(t, chains[built.this])
    /\ UNCHANGED <<collection, transducers, xform, machine, cursor, result,
                   resultArgs, lazyVars, uses, sharedVars, oneShotVars>>

NextShared ==
    \/ \E i \in 1..MaxCalls, call \in SharedMenu : CallOn(i, call)
    \/ \E i \in 1..MaxCalls : BuildOn(i)
    \/ \E i \in 1..MaxCalls, t \in SharedTerminals : TerminalOn(i, t)
    \/ \E t \in SharedTerminals : UseBuilt(t)

SpecShared == Init /\ [][NextShared]_vars

\* ----- terminal operations on one iterator -----

\* chainFrom(collection), collection being an iterator over the elements,
\* such as rangeIterator() returns.
InitOneShot == InitChain /\ sourceKind = "iterator"

\* The chain methods called on the chains around the iterator.
OneShotMenu ==
    {Stage("takeWhile", 0, "lt2"), Stage("take", 1, ""), Stage("filter", 0, "isEven")}

\* The terminal methods called on the chains around the iterator.
OneShotTerminals == {"toArray", "first"}

\* chainFrom(collection) once more, with the same iterator, after the
\* terminal operation on the first chain has returned: a new chain, no
\* stages; the iterator is where that operation left it.
ChainFromAgain ==
    /\ pc = "done"
    /\ uses = 0
    /\ uses' = 1
    /\ firstPulled' = machine.seen[1]
    /\ transducers' = <<>>
    /\ pc' = "chain"
    /\ terminal' = "none"
    /\ xform' = <<>>
    /\ machine' = NewMachine(<<>>)
    /\ result' = Undefined
    /\ resultArgs' = <<>>
    /\ ret' = Undefined
    /\ UNCHANGED <<collection, cursor, lazyVars, sharedVars, sourceKind>>

NextOneShot ==
    \/ \E call \in OneShotMenu : Compose(call)
    \/ \E t \in OneShotTerminals : Reduce(t)
    \/ Loop
    \/ Complete
    \/ ChainFromAgain

SpecOneShot == InitOneShot /\ [][NextOneShot]_vars

\* ----- the lazy iterator: toIterator() and next() -----

\* lazyTransduce(this.collection, this.build()): the iterable is constructed
\* around the source's iterator and xf(toArray()); nothing is pulled.
ToIterator ==
    /\ pc = "chain"
    /\ terminal' = "toIterator"
    /\ xform' = build(transducers, Reducer("toArray"))
    /\ iterable' = NewIterable(xform')
    /\ pc' = "iter"
    /\ UNCHANGED <<collection, transducers, eagerVars, out, lastNext, uses,
                   sharedVars, oneShotVars>>

\* One call of next() on the iterable.
IterNext ==
    /\ pc = "iter"
    /\ iterable.polls < MaxPolls
    /\ \E r \in {IterableNext(xform, collection, iterable)} :
           /\ iterable' = r.it
           /\ lastNext' = r.end
           /\ out' = IF r.end = "value" THEN Append(out, r.value) ELSE out
    /\ UNCHANGED <<collection, transducers, pc, terminal, xform, eagerVars, uses,
                   sharedVars, oneShotVars>>

NextLazy == (\E call \in Menu : Compose(call)) \/ ToIterator \/ IterNext

SpecLazy == Init /\ [][NextLazy]_vars

\* ----- the properties -----

\* The array toArray() returns for the chain over the source.
ToArrayOf(xs, chain) == transduce(xs, chain, Reducer("toArray")).r

\* The stages applied one after the other, each to the whole stream the
\* stages before it gave.
RECURSIVE Sequential(_, _, _)
Sequential(chain, i, stream) ==
    IF i > Len(chain) THEN Arr(stream)
    ELSE Sequential(chain, i + 1, ToArrayOf(stream, <<chain[i]>>).a)

\* The outputs the first n pulls of the iterable gave.
RECURSIVE Gave(_, _)
Gave(produced, n) ==
    IF n <= 0 THEN 0 ELSE Gave(produced, n - 1) + produced[n].gave

\* The terminal method has run its loop.
Ended == pc \in {"result", "done"}

\* The first stage of the chain is s, and the method is an eager reduction.
FirstStageIs(op) ==
    /\ pc \in {"loop", "result", "done"}
    /\ transducers # <<>>
    /\ transducers[1].op = op

\* C1: the sequence obtained by draining toIterator() until it signals
\* exhaustion equals the array toArray() returns for the same chain over the
\* same source.
C1_RoundTrip ==
    (pc = "iter" /\ lastNext = "done")
        => Arr(out) = ToArrayOf(collection, transducers)

\* C2: whatever stages precede it, the transformer immediately downstream of
\* take(n) receives at most max(n, 0) elements during one reduction, and a
\* chain ending in take(n).toArray() returns at most max(n, 0) elements.
C2_TakeBound ==
    /\ \A k \in 1..Len(xform) :
          (pc \in {"loop", "result", "done"} /\ xform[k].op = "take")
              => Len(machine.seen[k + 1]) <= Max(xform[k].n, 0)
    /\ (pc = "done" /\ terminal = "toArray" /\ transducers # <<>>
            /\ transducers[Len(transducers)].op = "take")
          => Len(ret.a) <= Max(transducers[Len(transducers)].n, 0)

\* C3: for every chain, first() returns the element toArray() holds at index
\* 0 for the same chain and source, or null when toArray() is empty.
C3_FirstIsHead ==
    (pc = "done" /\ terminal = "first")
        => ret = IF ToArrayOf(collection, transducers).a = <<>> THEN Null
                 ELSE ToArrayOf(collection, transducers).a[1]

\* C4: once the step of the transformer the engine drives returns Reduced,
\* the engine pulls no further element and calls step no more (one step per
\* pull, the Reduced one being the last), and it calls result exactly once,
\* after the loop, on the unwrapped accumulator.
C4_EngineStops ==
    /\ pc = "loop" => ~isReduced(result)
    /\ pc \in {"loop", "result", "done"} =>
          /\ Len(machine.seen[1]) = cursor
          /\ isReduced(result) <=> machine.redAt[1] # 0
          /\ isReduced(result) => machine.redAt[1] = cursor
    /\ pc \in {"chain", "loop", "result"} => resultArgs = <<>>
    /\ pc = "done" =>
          /\ Len(resultArgs) = 1
          /\ resultArgs[1] = unreduced(result)
          /\ ~isReduced(resultArgs[1])

C4_Witness ==
    /\ pc = "done"
    /\ isReduced(result)
    /\ cursor >= 1
    /\ cursor < Len(collection)

\* No transformer downstream of the first stage has returned Reduced.
DownstreamQuiet == \A k \in 2..Len(xform) : machine.redAt[k] = 0

Selecting == {"filter", "remove", "take", "takeWhile", "drop", "dropWhile", "dedupe"}

C7_TakeWhileStops ==
    (FirstStageIs("takeWhile") /\ cursor >= 1)
        => /\ \A i \in 1..(cursor - 1) : Holds(transducers[1].f, collection[i])
           /\ machine.seen[1] = SubSeq(collection, 1, cursor)
           /\ machine.seen[2] =
                 SubSeq(collection, 1,
                        IF Holds(transducers[1].f, collection[cursor])
                        THEN cursor ELSE cursor - 1)
           /\ ~Holds(transducers[1].f, collection[cursor]) =>
                 /\ isReduced(result)
                 /\ machine.redAt[1] = cursor

C7_Witness ==
    /\ FirstStageIs("takeWhile")
    /\ pc = "done"
    /\ terminal = "toArray"
    /\ collection = <<Num(1), Num(2), Num(1)>>
    /\ cursor = 2
    /\ machine.seen[2] = <<Num(1)>>

\* C8: flatMap(f) fed by the source forwards each element it takes from a
\* sub-sequence; once the downstream step returns Reduced it takes no more
\* from that sub-sequence, it returns Reduced, and the outer source is not
\* pulled again, so every later sub-sequence stays unconsumed.
C8_FlatMapStops ==
    (FirstStageIs("flatMap") /\ transducers[1].f = "dup")
        => /\ machine.sub[1] = Len(machine.seen[2])
           /\ machine.sub[1] <= 2 * cursor
           /\ machine.redAt[2] # 0 =>
                 /\ Len(machine.seen[2]) = machine.redAt[2]
                 /\ machine.sub[1] > 2 * (cursor - 1)
                 /\ isReduced(result)
                 /\ machine.redAt[1] = cursor
                 /\ pc # "loop"

C8_Witness ==
    /\ FirstStageIs("flatMap")
    /\ transducers[1].f = "dup"
    /\ pc = "done"
    /\ machine.redAt[2] = 3
    /\ machine.sub[1] = 3
    /\ cursor = 2
    /\ Len(collection) = 3

\* C9: stages apply in declaration order: chainFrom(xs).s1.s2...sk.toArray()
\* equals applying s1, then s2, ..., then sk to the element stream.
C9_DeclarationOrder ==
    (pc = "done" /\ terminal = "toArray")
        => ret = Sequential(transducers, 1, collection)

\* C10: toIterator() pulls nothing until next() is called; a next() call
\* pulls a source element only when the backlog is empty; and when next()
\* has handed out the k-th output, the pulls before the last one had given
\* fewer than k outputs: the last pull was needed.
C10_LazyPulls ==
    pc = "iter" =>
        /\ lastNext = "none" => (iterable.cursor = 0 /\ iterable.produced = <<>>)
        /\ Len(iterable.produced) = iterable.cursor
        /\ \A p \in 1..Len(iterable.produced) : iterable.produced[p].backlog = 0
        /\ Len(out) <= Gave(iterable.produced, iterable.cursor)
        /\ lastNext = "value" =>
              Gave(iterable.produced, iterable.cursor - 1) < Len(out)

C10_Witness ==
    /\ pc = "iter"
    /\ lastNext = "value"
    /\ Len(out) = 2
    /\ iterable.cursor = 1
    /\ Left(iterable.upcoming) = 0
    /\ Len(collection) = 3
    /\ ~iterable.hasSeenEnd

\* s is a prefix of t.
IsPrefix(s, t) == Len(s) <= Len(t) /\ s = SubSeq(t, 1, Len(s))

\* The places the stage op holds in the composed transformer of a reduction.
PlacesOf(op) ==
    IF pc \in {"loop", "result", "done"}
    THEN {k \in 1..Len(xform) : xform[k].op = op}
    ELSE {}

\* The elements xs in consecutive groups of n, the last one holding the rest.
RECURSIVE Chunks(_, _)
Chunks(xs, n) ==
    IF xs = <<>> THEN <<>>
    ELSE IF Len(xs) <= n THEN <<Arr(xs)>>
    ELSE <<Arr(SubSeq(xs, 1, n))>> \o Chunks(SubSeq(xs, n + 1, Len(xs)), n)

\* C11: in an eager reduction partitionAll(n), n >= 1, emits what it received
\* in consecutive groups of exactly n elements, in order, then one final
\* group with the remaining 1..n-1 elements: nothing lost, duplicated or
\* empty. Downstream sees the full groups during the loop and, unless it
\* ended the reduction itself, all the groups once the reduction is done.
C11_PartitionAllGroups ==
    \A k \in PlacesOf("partitionAll") :
        /\ IsPrefix(machine.seen[k + 1], Chunks(machine.seen[k], xform[k].n))
        /\ \A g \in 1..Len(machine.seen[k + 1]) : machine.seen[k + 1][g].a # <<>>
        /\ pc \in {"loop", "result"} =>
              Len(machine.seen[k + 1]) * xform[k].n + Len(machine.xf[k].buffer.a)
                  = Len(machine.seen[k])
        /\ (pc = "done" /\ machine.redAt[k + 1] = 0) =>
              machine.seen[k + 1] = Chunks(machine.seen[k], xform[k].n)

C11_Witness ==
    /\ pc = "done"
    /\ terminal = "toArray"
    /\ Len(transducers) = 1
    /\ transducers[1].op = "partitionAll"
    /\ Len(collection) = 3
    /\ ret = Arr(<<Arr(SubSeq(collection, 1, 2)), Arr(SubSeq(collection, 3, 3))>>)

\* The elements of the groups, one after the other.
RECURSIVE Concat(_)
Concat(groups) ==
    IF groups = <<>> THEN <<>> ELSE Head(groups).a \o Concat(Tail(groups))

\* C12: in an eager reduction partitionBy(f) emits the maximal runs of
\* consecutive elements with identity-equal f-values, in order: the groups
\* concatenated give back what it received, within a group all keys are
\* equal, adjacent groups have different keys, and no group is empty.
C12_PartitionByRuns ==
    \A k \in PlacesOf("partitionBy") :
        /\ IsPrefix(Concat(machine.seen[k + 1]), machine.seen[k])
        /\ pc = "done" => Concat(machine.seen[k + 1]) = machine.seen[k]
        /\ \A g \in 1..Len(machine.seen[k + 1]) :
              LET group == machine.seen[k + 1][g].a
              IN  /\ group # <<>>
                  /\ \A i \in 1..Len(group) :
                        StrictEq(Call(xform[k].f, group[i]), Call(xform[k].f, group[1]))
                  /\ g > 1 =>
                        ~StrictEq(Call(xform[k].f, group[1]),
                                  Call(xform[k].f, machine.seen[k + 1][g - 1].a[1]))

C12_Witness ==
    /\ pc = "done"
    /\ terminal = "toArray"
    /\ Len(transducers) = 1
    /\ transducers[1].op = "partitionBy"
    /\ collection = <<Num(1), Num(1), Num(2)>>
    /\ ret = Arr(<<Arr(<<Num(1), Num(1)>>), Arr(<<Num(2)>>)>>)

\* C13: partitionAll(n) and takeNth(n) with n <= 0 throw when the chain
\* method is called: no chain ever holds such a stage, and when the Error is
\* thrown no terminal operation has been invoked and no source element has
\* been pulled.
C13_ThrowsAtConstruction ==
    /\ \A i \in 1..Len(transducers) :
          transducers[i].op \in {"partitionAll", "takeNth"} => transducers[i].n >= 1
    /\ IsError(ret) =>
          /\ pc = "threw"
          /\ terminal = "none"
          /\ xform = <<>>
          /\ cursor = 0
          /\ iterable.cursor = 0
          /\ machine = NewMachine(<<>>)

C13_Witness ==
    /\ pc = "threw"
    /\ ret = Error("Step in takeNth() cannot be negative")
    /\ Len(transducers) = 1
    /\ collection # <<>>
    /\ cursor = 0

\* The places of the group-by transformer in a reduction.
GroupByPlaces == PlacesOf("toMapGroupBy") \cup PlacesOf("toObjectGroupBy")

\* The items whose key under getKey f is c, in order.
OfKey(items, f, c) == SelectSeq(items, LAMBDA x : Call(f, x) = c)

\* The keys of the items.
KeysOf(items, f) == {Call(f, items[i]) : i \in 1..Len(items)}

\* C14: in toMapGroupBy / toObjectGroupBy, once the supplied transformer's
\* step has returned Reduced on an item, it is never called again for an item
\* with that key; every key receives its items, in order, up to that point,
\* and all of them when its sub-reduction never returned Reduced; the
\* group-by itself never returns Reduced, so on the bare source the outer
\* reduction consumes the source to its end.
C14_GroupByRespectsReduced ==
    \A k \in GroupByPlaces :
        /\ \A p \in machine.reds[k + 1] :
              \A q \in (p + 1)..Len(machine.seen[k + 1]) :
                  Call(xform[k].f, machine.seen[k + 1][q])
                      # Call(xform[k].f, machine.seen[k + 1][p])
        /\ \A c \in KeysOf(machine.seen[k], xform[k].f) :
              /\ IsPrefix(OfKey(machine.seen[k + 1], xform[k].f, c),
                          OfKey(machine.seen[k], xform[k].f, c))
              /\ (\A p \in machine.reds[k + 1] :
                        Call(xform[k].f, machine.seen[k + 1][p]) # c)
                    => OfKey(machine.seen[k + 1], xform[k].f, c)
                          = OfKey(machine.seen[k], xform[k].f, c)
        /\ machine.reds[k] = {}
        /\ (transducers = <<>> /\ Ended) =>
              (cursor = Len(collection) /\ ~isReduced(result))

C14_Witness ==
    /\ pc = "done"
    /\ terminal = "toMapGroupBy(first())"
    /\ transducers = <<>>
    /\ collection = <<Num(1), Num(2), Num(1)>>
    /\ machine.seen[2] = <<Num(1), Num(2)>>
    /\ machine.reds[2] = {1, 2}
    /\ ret.at[Num(1)] = Num(1)
    /\ ret.at[Num(2)] = Num(2)

\* C15: in toMapGroupBy / toObjectGroupBy the value stored under each key
\* equals the result of reducing, with the supplied transformer alone, the
\* subsequence of the items that have that key.
C15_GroupByIndependent ==
    \A k \in GroupByPlaces :
        pc = "done" =>
            /\ DOMAIN ret.at = KeysOf(machine.seen[k], xform[k].f)
            /\ \A c \in DOMAIN ret.at :
                  ret.at[c] =
                      reduceWithTransformer(
                          OfKey(machine.seen[k], xform[k].f, c),
                          SubSeq(xform, k + 1, Len(xform))).r

\* The elements of xs that are the first one or not identical to the one
\* immediately before them.
Deduped(xs) ==
    SelectSeq([i \in 1..Len(xs) |->
                  [x |-> xs[i], keep |-> i = 1 \/ ~StrictEq(xs[i], xs[i - 1])]],
              LAMBDA e : e.keep)

\* C16: dedupe() forwards an element if and only if it is the first element
\* or is not identity-equal to the element immediately before it: the first
\* element is always forwarded and no two consecutive forwarded elements are
\* identical.
C16_DedupeForwards ==
    \A k \in PlacesOf("dedupe") :
        /\ machine.seen[k + 1] =
              [i \in 1..Len(Deduped(machine.seen[k])) |-> Deduped(machine.seen[k])[i].x]
        /\ machine.seen[k] # <<>> => machine.seen[k + 1][1] = machine.seen[k][1]
        /\ \A i \in 2..Len(machine.seen[k + 1]) :
              ~StrictEq(machine.seen[k + 1][i], machine.seen[k + 1][i - 1])

C16_Witness ==
    /\ pc = "done"
    /\ terminal = "toArray"
    /\ Len(transducers) = 1
    /\ transducers[1].op = "dedupe"
    /\ collection = <<Num(1), Num(1), Num(2)>>
    /\ ret = Arr(<<Num(1), Num(2)>>)

\* The elements of xs from the first one for which pred fails onward.
RECURSIVE From(_, _)
From(xs, pred) ==
    IF xs = <<>> THEN <<>>
    ELSE IF Holds(pred, Head(xs)) THEN From(Tail(xs), pred)
    ELSE xs

\* C17: in an eager reduction dropWhile(pred) forwards nothing while pred
\* holds; from the first element for which pred fails onward it forwards
\* every element, those for which pred holds again included.
C17_DropWhileSwitch ==
    \A k \in PlacesOf("dropWhile") :
        machine.seen[k + 1] = From(machine.seen[k], xform[k].f)

C17_Witness ==
    /\ pc = "done"
    /\ terminal = "toArray"
    /\ Len(transducers) = 1
    /\ transducers[1].op = "dropWhile"
    /\ collection = <<Num(1), Num(2), Num(1)>>
    /\ ret = Arr(<<Num(2), Num(1)>>)

Min(a, b) == IF a <= b THEN a ELSE b

\* C18: in an eager reduction drop(n) discards exactly the first
\* min(n, length) elements it receives and forwards all later ones in order;
\* for n <= 0 it forwards every element.
C18_DropDiscardsFirstN ==
    \A k \in PlacesOf("drop") :
        /\ machine.seen[k + 1] =
               SubSeq(machine.seen[k],
                      Min(Max(xform[k].n, 0), Len(machine.seen[k])) + 1,
                      Len(machine.seen[k]))
        /\ xform[k].n <= 0 => machine.seen[k + 1] = machine.seen[k]

C18_Witness ==
    /\ pc = "done"
    /\ terminal = "toArray"
    /\ Len(transducers) = 2
    /\ transducers[1] = Stage("drop", 0, "")
    /\ transducers[2] = Stage("drop", 1, "")
    /\ collection = <<Num(1), Num(2), Num(2)>>
    /\ machine.seen[2] = collection
    /\ ret = Arr(<<Num(2), Num(2)>>)

\* x1, sep, x2, sep, ..., xk.
RECURSIVE Interposed(_, _)
Interposed(xs, sep) ==
    IF Len(xs) <= 1 THEN xs
    ELSE <<Head(xs), sep>> \o Interposed(Tail(xs), sep)

Emitted == machine.seen[Len(transducers) + 1]

SomeFails == \E i \in 1..Len(Emitted) : ~Holds("lt2", Emitted[i])

\* C20: every(pred) stops at the first emitted element that fails pred: the
\* reduction pulls from the source only while no emitted element has failed
\* pred, so no source element after the one that produced the failure is
\* pulled; it returns false when an emitted element fails pred and true
\* when none does, so true on an empty input.
C20_EveryStops ==
    terminal = "every" =>
        /\ pc = "loop" => ~SomeFails
        /\ (pc \in {"result", "done"} /\ SomeFails /\ cursor < Len(collection))
               => machine.redAt[1] = cursor
        /\ pc = "done" => ret = Bool(~SomeFails)
        /\ (pc = "done" /\ collection = <<>>) => ret = Bool(TRUE)

C20_Witness ==
    /\ pc = "done"
    /\ terminal = "every"
    /\ transducers = <<>>
    /\ collection = <<Num(1), Num(2), Num(1)>>
    /\ cursor = 2
    /\ Emitted = <<Num(1), Num(2)>>
    /\ ret = Bool(FALSE)

\* f(...f(f(acc, y_i), y_i+1)..., y_k)
RECURSIVE Folded(_, _, _, _)
Folded(f, acc, ys, i) ==
    IF i > Len(ys) THEN acc ELSE Folded(f, Reduces(f, acc, ys[i]), ys, i + 1)

\* The reduction is a reduce() call with a plain function.
ReducesWithFunction ==
    /\ pc \in {"loop", "result", "done"}
    /\ terminal.typeof = "function"

\* C21: reduce(f, init) with a plain reducer function returns what the
\* reduction with the transformer { init: () => init, step: f, result:
\* x => x } returns; when f never returns Reduced the value is
\* f(...f(f(init, y1), y2)..., yk) over the elements y1..yk the stages
\* emitted, in order.
C21_ReduceWithFunction ==
    ReducesWithFunction =>
        /\ (transducers = <<>> /\ cursor = 0) => result = terminal.initialValue
        /\ pc = "done" =>
              /\ ret = transduce(collection, transducers,
                                 TransformerOf(Literal(terminal.f,
                                                       terminal.initialValue))).r
              /\ machine.redAt[Len(xform)] = 0 =>
                    ret = Folded(terminal.f, terminal.initialValue,
                                 machine.seen[Len(xform)], 1)

C21_Witness ==
    /\ ReducesWithFunction
    /\ pc = "done"
    /\ terminal.f = "aPush"
    /\ Len(transducers) = 1
    /\ transducers[1] = Stage("map", 0, "inc")
    /\ collection = <<Num(1), Num(2), Num(1)>>
    /\ ret = Arr(<<Num(2), Num(3), Num(2)>>)

\* C22: the transducer build() returns can be applied in any number of
\* separate reductions: each application starts from new stage instances,
\* and each reduction returns what the inline chain of the same stages
\* returns (a built take(2) takes 2 elements in each use).
C22_BuiltIsReusable ==
    uses >= 1 =>
        /\ (pc = "loop" /\ cursor = 0) =>
              \A k \in 1..Len(xform) : machine.xf[k] = NewInstance
        /\ pc = "done" =>
              ret = transduce(collection, transducers, Reducer(terminal)).r
        /\ (pc = "done" /\ terminal = "toArray" /\ transducers = <<Stage("take", 2, "")>>)
              => ret = Arr(SubSeq(collection, 1, Min(2, Len(collection))))

C22_Witness ==
    /\ uses = 2
    /\ pc = "done"
    /\ terminal = "toArray"
    /\ transducers = <<Stage("take", 2, "")>>
    /\ collection = <<Num(1), Num(2), Num(1)>>
    /\ ret = Arr(<<Num(1), Num(2)>>)

\* The places of the transformers whose function throws on the input x.
Throwing(x) == {k \in 1..Len(xform) : Throws(xform[k].f, x)}

\* C23: when a predicate, mapper or key function throws during a terminal
\* call, what it threw leaves the call unchanged and the reduction is over:
\* the throwing step is the step of the last element pulled, result has not
\* been called, and from then on nothing is pulled, stepped or completed. A
\* function that throws on an input never has its throw swallowed.
C23_ThrowAborts ==
    /\ [](pc \in {"loop", "result", "done"} =>
            \A k \in 1..Len(xform) :
                \A i \in 1..Len(machine.seen[k]) :
                    ~Throws(xform[k].f, machine.seen[k][i]))
    /\ [](pc = "threw" =>
            /\ ret = Boom
            /\ resultArgs = <<>>
            /\ cursor >= 1
            /\ Len(machine.seen[1]) = cursor
            /\ \E k \in 1..Len(xform) :
                  /\ machine.seen[k] # <<>>
                  /\ Throws(xform[k].f, machine.seen[k][Len(machine.seen[k])])
                  /\ \A i \in 1..(Len(machine.seen[k]) - 1) :
                        ~Throws(xform[k].f, machine.seen[k][i]))
    /\ [][pc # "threw"]_vars

C23_Witness ==
    /\ pc = "threw"
    /\ ret = Boom
    /\ terminal = "toArray"
    /\ transducers = <<Stage("map", 0, "inc"), Stage("filter", 0, "lt2OrThrow")>>
    /\ collection = <<Num(2), Num(1), Num(1)>>
    /\ cursor = 2
    /\ machine.seen[3] = <<>>

\* The library stages of the composed transformer: the places that step a
\* transformer downstream and are not a group-by reducer.
StagePlaces ==
    IF pc \in {"loop", "result", "done"}
    THEN {k \in 1..(Len(xform) - 1) :
             xform[k].op \notin {"toMapGroupBy", "toObjectGroupBy"}}
    ELSE {}

\* The downstream step calls made during step call i of transformer k.
During(k, i) ==
    ((IF i = 1 THEN 0 ELSE machine.upTo[k][i - 1]) + 1)..machine.upTo[k][i]

\* C24: for every library stage, whenever a downstream step called during
\* the stage's own step returns Reduced, that downstream call is the last
\* one of the step and the stage itself returns Reduced; so a Reduced
\* returned in the loop reaches the engine through every enclosing stage,
\* and the engine hands result the accumulator unwrapped once.
C24_ReducedPropagates ==
    /\ \A k \in StagePlaces :
          \A i \in 1..Len(machine.upTo[k]) :
              \A p \in During(k, i) :
                  p \in machine.reds[k + 1] =>
                      /\ p = machine.upTo[k][i]
                      /\ i \in machine.reds[k]
    /\ (pc \in {"result", "done"} /\ machine.reds[1] # {}) =>
          /\ isReduced(result)
          /\ ~isReduced(result.value)
    /\ pc = "done" => resultArgs = <<unreduced(result)>>

C24_Witness ==
    /\ pc = "done"
    /\ terminal = "find"
    /\ transducers = <<Stage("dedupe", 0, ""), Stage("interpose", 3, "")>>
    /\ collection = <<Num(1), Num(2), Num(1)>>
    /\ \A k \in 1..4 : machine.reds[k] # {}
    /\ cursor = 2
    /\ ret = Num(2)

\* C25: when the downstream step returns Reduced on the separator that
\* interpose forwards, interpose returns Reduced and the paired input is
\* never forwarded: the separator is the last thing that step hands
\* downstream. So interpose(s).take(2).toArray() on [a, b, ...] is [a, s].
C25_ReducedOnSeparator ==
    /\ \A k \in PlacesOf("interpose") :
          \A i \in 2..Len(machine.upTo[k]) :
              (machine.upTo[k][i - 1] + 1) \in machine.reds[k + 1] =>
                  /\ machine.seen[k + 1][machine.upTo[k][i - 1] + 1] = Num(xform[k].n)
                  /\ machine.upTo[k][i] = machine.upTo[k][i - 1] + 1
                  /\ i \in machine.reds[k]
    /\ (pc = "done" /\ terminal = "toArray" /\ Len(collection) >= 2
            /\ transducers = <<Stage("interpose", 3, ""), Stage("take", 2, "")>>)
          => /\ ret = Arr(<<collection[1], Num(3)>>)
             /\ cursor = 2

C25_Witness ==
    /\ pc = "done"
    /\ terminal = "toArray"
    /\ transducers = <<Stage("interpose", 3, ""), Stage("take", 2, "")>>
    /\ collection = <<Num(1), Num(2), Num(1)>>
    /\ machine.seen[2] = <<Num(1), Num(3)>>
    /\ machine.reds[1] = {2}
    /\ ret = Arr(<<Num(1), Num(3)>>)

\* The places of the take(n) transformers with n <= 0.
TakeNonePlaces == {k \in PlacesOf("take") : xform[k].n <= 0}

\* C26: take(n) with n <= 0 never calls its downstream step and returns
\* Reduced on the first element it receives (and on any other), so the
\* reduction returns what the terminal returns for zero elements: toArray()
\* an empty array, first() and find() null, every() true.
C26_TakeNone ==
    /\ \A k \in TakeNonePlaces :
          /\ machine.seen[k + 1] = <<>>
          /\ machine.reds[k] = 1..Len(machine.seen[k])
          /\ \A j \in (k + 1)..Len(xform) : machine.seen[j] = <<>>
    /\ (pc = "done" /\ \E i \in 1..Len(transducers) :
                           transducers[i].op = "take" /\ transducers[i].n <= 0)
          => /\ ret = transduce(<<>>, <<>>, Reducer(terminal)).r
             /\ ret = CASE terminal = "toArray" -> Arr(<<>>)
                        [] terminal \in {"first", "find"} -> Null
                        [] terminal = "every" -> Bool(TRUE)

C26_Witness ==
    /\ pc = "done"
    /\ terminal = "toArray"
    /\ transducers = <<Stage("map", 0, "inc"), Stage("take", -1, "")>>
    /\ collection = <<Num(1), Num(2), Num(1)>>
    /\ machine.seen[2] = <<Num(2)>>
    /\ machine.reds[2] = {1}
    /\ ret = Arr(<<>>)

\* C27: for chainFrom(source).take(n) followed by any terminal method, the
\* number of elements pulled from the source never exceeds max(n, 0), for
\* every n, n = 0 included.
C27_TakePullsAtMostN ==
    (FirstStageIs("take") /\ Len(transducers) = 1)
        => cursor <= Max(transducers[1].n, 0)

\* C28: once next() has signalled exhaustion the iterable is in a terminal
\* state: every later next() call signals exhaustion too, and the source's
\* iterator is not asked again.
C28_ExhaustedIsTerminal ==
    [][(pc = "iter" /\ lastNext = "done")
          => (lastNext' = "done" /\ iterable'.polls = iterable.polls)]_vars

\* The first transformer of the iterable has returned Reduced.
ReducedSeen == pc = "iter" /\ iterable.m.redAt[1] # 0

\* The outputs of the last step that next() has not handed out yet.
Pending ==
    SubSeq(iterable.upcoming.array.a, iterable.upcoming.i + 1,
           Len(iterable.upcoming.array.a))

\* s is a suffix of t.
IsSuffix(s, t) == Len(s) <= Len(t) /\ s = SubSeq(t, Len(t) - Len(s) + 1, Len(t))

\* Every step the iterable has made so far has returned.
NoneThrew == Len(iterable.m.upTo[1]) = iterable.cursor

\* C29: when a step of the iterable has returned Reduced, the source is not
\* pulled or asked again after the element of that step; what the step
\* produced (the last elements the chain emitted) is handed out in order,
\* one output per next() call, so that, when no earlier step threw, the
\* outputs handed out and those pending are all the chain ever emitted; and
\* next() signals exhaustion once nothing is pending, never before.
C29_ReducedDrains ==
    /\ [](ReducedSeen =>
             /\ iterable.cursor = iterable.m.redAt[1]
             /\ iterable.polls = iterable.cursor
             /\ IsSuffix(iterable.upcoming.array.a, iterable.m.seen[Len(xform)])
             /\ IsSuffix(SubSeq(iterable.upcoming.array.a, 1, iterable.upcoming.i),
                         out)
             /\ NoneThrew => out \o Pending = iterable.m.seen[Len(xform)]
             /\ lastNext = "done" => Pending = <<>>)
    /\ [][ReducedSeen =>
             /\ Pending # <<>> =>
                   (lastNext' = "value" /\ out' = Append(out, Head(Pending)))
             /\ Pending = <<>> => (lastNext' = "done" /\ out' = out)]_vars

C29_Witness ==
    /\ pc = "iter"
    /\ transducers = <<Stage("flatMap", 0, "dup"), Stage("take", 2, "")>>
    /\ collection = <<Num(2), Num(1), Num(1)>>
    /\ iterable.cursor = 1
    /\ iterable.hasSeenEnd
    /\ out = <<Num(2), Num(2)>>
    /\ lastNext = "done"

\* The places of partitionAll and partitionBy with no partitioning stage
\* upstream: what they hold when the loop ends is what their result() finds.
FirstPartitionPlaces ==
    {k \in PlacesOf("partitionAll") \cup PlacesOf("partitionBy") :
        \A j \in 1..(k - 1) : xform[j].op \notin {"partitionAll", "partitionBy"}}

\* The state of transformer k inside the state r of transformer j <= k.
RECURSIVE StateAt(_, _, _)
StateAt(j, k, r) ==
    IF j = k THEN r
    ELSE IF xform[j].op \in {"dedupe", "dropWhile", "takeNth", "partitionBy"}
    THEN StateAt(j + 1, k, Get(r, "value"))
    ELSE StateAt(j + 1, k, r)

\* The buffer stage k holds: PartitionAll's this.buffer, PartitionBy's
\* result.buffer.
Held(k) ==
    IF xform[k].op = "partitionAll" THEN machine.xf[k].buffer.a
    ELSE Get(StateAt(1, k, unreduced(result)), "buffer").a

\* C30: when the loop of an eager reduction has ended, by exhaustion of the
\* source or by a Reduced from upstream, and partitionAll or partitionBy
\* holds a non-empty buffer, result() steps the transformer downstream with
\* that buffer as one group, once, and with nothing when the buffer is
\* empty; the group is in the result the downstream transformer completes:
\* toArray() returns it as its last element.
C30_FinalGroup ==
    [][(pc = "result" /\ pc' # "result") =>
          \A k \in FirstPartitionPlaces :
              machine.redAt[k + 1] = 0 =>
                  /\ Held(k) # <<>> =>
                        machine'.seen[k + 1]
                            = Append(machine.seen[k + 1], Arr(Held(k)))
                  /\ Held(k) = <<>> => machine'.seen[k + 1] = machine.seen[k + 1]
                  /\ (k = Len(transducers) /\ terminal = "toArray")
                        => (pc' = "done" /\ ret' = Arr(machine'.seen[k + 1]))]_vars

C30_Witness ==
    /\ pc = "done"
    /\ terminal = "toArray"
    /\ transducers = <<Stage("take", 1, ""), Stage("partitionAll", 2, "")>>
    /\ collection = <<Num(2), Num(1), Num(1)>>
    /\ cursor = 1
    /\ machine.seen[3] = <<Arr(<<Num(2)>>)>>
    /\ ret = Arr(<<Arr(<<Num(2)>>)>>)

\* The stages the calls that returned composed, in the order of the calls.
RECURSIVE StagesOf(_)
StagesOf(calls) ==
    IF calls = <<>> THEN <<>>
    ELSE IF Head(calls).threw THEN StagesOf(Tail(calls))
    ELSE <<Transducer(Head(calls).call)>> \o StagesOf(Tail(calls))

\* C31: compose() and every chain method append in place and return the
\* object they were called on: there is one chain object, every reference
\* the caller obtained is a reference to it, so each of them, those obtained
\* before a stage was added too, has all the stages composed so far, and a
\* terminal method called through any of them runs them all.
C31_SameChain ==
    /\ Len(chains) = 1
    /\ \A i \in 1..Len(refs) :
          /\ refs[i] = refs[1]
          /\ chains[refs[i]] = StagesOf(log)
    /\ (pc = "done" /\ via # 0)
          => ret = transduce(collection, StagesOf(log), Reducer(terminal)).r

C31_Witness ==
    /\ pc = "done"
    /\ via = 1
    /\ terminal = "toArray"
    /\ log = <<[call |-> Stage("map", 0, "inc"), threw |-> FALSE],
               [call |-> Stage("take", 1, ""), threw |-> FALSE]>>
    /\ collection = <<Num(1), Num(2), Num(1)>>
    /\ ret = Arr(<<Num(2)>>)

\* C35: the transducer build() returned consists of the stages the builder
\* had when build() was called: applied later, it gives what those stages
\* give, whatever was appended to the builder in between.
C35_BuiltIsSnapshot ==
    (pc = "done" /\ via = 0 /\ built # <<>>)
        => ret = transduce(collection, built.had, Reducer(terminal)).r

\* The last chain method call threw.
Failed(calls) == calls # <<>> /\ calls[Len(calls)].threw

\* C36: the chain method calls that throw are partitionAll(n) and
\* takeNth(n) with n <= 0; such a call appends no stage and returns no
\* reference, the chain object is as it was before the call, and a terminal
\* method called afterwards returns what the stages of the calls that
\* returned give.
C36_FailedCallAppendsNothing ==
    /\ [][(Len(log') > Len(log) /\ Failed(log'))
             => /\ chains' = chains
                /\ refs' = refs
                /\ pc' = "chain"
                /\ IsError(ret')
                /\ log'[Len(log')].call.op \in {"partitionAll", "takeNth"}
                /\ log'[Len(log')].call.n <= 0]_vars
    /\ []((pc = "done" /\ via # 0 /\ \E j \in 1..Len(log) : log[j].threw)
             => ret = transduce(collection, chains[refs[via]],
                                Reducer(terminal)).r)
    /\ [](\A j \in 1..Len(log) :
             log[j].threw <=> (/\ log[j].call.op \in {"partitionAll", "takeNth"}
                               /\ log[j].call.n <= 0))

C36_Witness ==
    /\ pc = "done"
    /\ via = 2
    /\ terminal = "toArray"
    /\ log = <<[call |-> Stage("map", 0, "inc"), threw |-> FALSE],
               [call |-> Stage("partitionAll", 0, ""), threw |-> TRUE],
               [call |-> Stage("take", 1, ""), threw |-> FALSE]>>
    /\ chains = <<<<Stage("map", 0, "inc"), Stage("take", 1, "")>>>>
    /\ collection = <<Num(1), Num(1)>>
    /\ ret = Arr(<<Num(2)>>)

\* C32: of two terminal operations on one iterator, the second pulls the
\* elements after those the first pulled, the one the first pulled without
\* forwarding it included: the elements the two have pulled are the
\* source's first elements, each once, and toArray() on the bare second
\* chain returns the elements after those the first pulled.
C32_NothingReplayed ==
    (sourceKind = "iterator" /\ pc \in {"loop", "result", "done"})
        => /\ firstPulled \o machine.seen[1] = SubSeq(collection, 1, cursor)
           /\ uses = 0 => firstPulled = <<>>
           /\ (uses = 1 /\ pc = "done" /\ terminal = "toArray"
                   /\ transducers = <<>>)
                 => ret = Arr(SubSeq(collection, Len(firstPulled) + 1,
                                     Len(collection)))

C32_Witness ==
    /\ sourceKind = "iterator"
    /\ uses = 1
    /\ pc = "done"
    /\ terminal = "toArray"
    /\ transducers = <<>>
    /\ collection = <<Num(1), Num(2), Num(1)>>
    /\ firstPulled = <<Num(1), Num(2)>>
    /\ cursor = 3
    /\ ret = Arr(<<Num(1)>>)

\* The stages that carry memory from one element to the next in the
\* accumulator they wrap.
MemoryStages == {"dedupe", "dropWhile", "takeNth", "partitionBy"}

\* C33: with toIterator() a stage that carries memory between elements keeps
\* it across the next() calls: no next() call throws, and what the calls
\* hand out are the first outputs of the same chain reduced eagerly, where
\* the memory is kept.
C33_LazyKeepsMemory ==
    (pc = "iter" /\ \E i \in 1..Len(transducers) : transducers[i].op \in MemoryStages)
        => /\ lastNext # "threw"
           /\ IsPrefix(out, ToArrayOf(collection, transducers).a)

\* C34: when the source is exhausted the iterable hands out what
\* partitionAll or partitionBy still holds before it signals exhaustion:
\* once next() has signalled exhaustion, the groups handed out hold every
\* element of the source, the trailing group included.
C34_LazyTrailingGroup ==
    (pc = "iter" /\ lastNext = "done" /\ Len(transducers) = 1
            /\ transducers[1].op \in {"partitionAll", "partitionBy"})
        => Concat(out) = collection

\* C37: in a reduction no step or result call of any transformer is handed
\* a Reduced box as its accumulator, the engine's included, and no step call
\* returns a Reduced box that holds a Reduced box.
C37_NoBoxInBox ==
    /\ \A k \in 1..Len(machine.boxed) :
          ~machine.boxed[k] /\ ~machine.nested[k]
    /\ pc = "loop" => ~isReduced(result)
    /\ isReduced(result) => ~isReduced(result.value)
    /\ \A i \in 1..Len(resultArgs) : ~isReduced(resultArgs[i])

C37_Witness ==
    /\ pc = "done"
    /\ terminal = "toArray"
    /\ transducers = <<Stage("take", 1, ""), Stage("take", 1, "")>>
    /\ collection = <<Num(1), Num(2)>>
    /\ machine.reds = <<{1}, {1}, {}>>
    /\ isReduced(result)
    /\ resultArgs = <<Arr(<<Num(1)>>)>>
    /\ ret = Arr(<<Num(1)>>)

====
